---- MODULE Spec2Model ----
(***************************************************************************)
(* Model of the request-throttling and asynchronous-dispatch core of       *)
(* gemini-gui: the token bucket of src/utils.py (RateLimiter) shared by    *)
(* the worker threads of src/worker.py (GeminiWorker.run).                 *)
(*                                                                         *)
(* Time is counted in ticks of 30 seconds: the worker's acquire timeout    *)
(* (30 s) is one tick and the limiter's period (60 s) is two ticks.  A     *)
(* sleep of 0.1 s or 1 s lasts less than a tick, so a sleeping thread may  *)
(* wake at any moment; the scheduler may also delay it for any number of   *)
(* ticks.                                                                  *)
(***************************************************************************)
EXTENDS Integers, Sequences, FiniteSets, TLC

(* ------------------------------ bounds --------------------------------- *)

\* Capacity of the shared bucket (RATE_LIMITER is built with 20; the model
\* scales it down so that the workers can exhaust it).
max_requests == 1

\* Number of worker threads the caller starts.
NumWorkers == 2

\* Longest attachment list handed to a worker that runs alone.
MaxFiles == 2

(* -------------------------- program constants -------------------------- *)

\* RateLimiter(max_requests=20, period=60, ...): 60 s, in ticks of 30 s.
period == 2

\* RATE_LIMITER.acquire(blocking=True, timeout=30): 30 s, in ticks of 30 s.
WorkerTimeout == 1

\* The arguments of the worker's acquire call.
WorkerBlocking == TRUE

WorkerTimeoutArg == <<WorkerTimeout>>

\* self.refill_interval = self.period / self.max_requests
refill_interval == period \div max_requests

\* Mutant of start_refill_timer: no Timer is started.
start_refill_timer_none == 0 - 1

\* _start_refill_timer: the ticks until the Timer it starts expires.
start_refill_timer == refill_interval

Workers == 1..NumWorkers

\* The attachment paths a caller may hand over, by what decides their
\* treatment: the extension.
Paths == {"a.png", "b.txt"}

Prompts == {"", "hi"}

RECURSIVE SeqsUpTo(_, _)
SeqsUpTo(S, n) ==
  IF n = 0 THEN {<<>>}
  ELSE LET shorter == SeqsUpTo(S, n - 1)
       IN  shorter \cup {Append(s, x) : s \in {t \in shorter : Len(t) = n - 1}, x \in S}

FileLists == SeqsUpTo(Paths, MaxFiles)

\* A request is <<prompt, file_paths>>.
Requests == Prompts \X FileLists

\* The request sent by the workers that run side by side: no prompt and one
\* media attachment, so that the run uploads, and has nothing to send when the
\* attachment is dropped.
SharedRequests == {<<"", <<"a.png">>>>}

\* What str(e) of an exception may contain: the rate marker
\* ("ResourceExhausted"/"429"), the auth marker ("GoogleAuthError"/"401"/
\* "Unauthenticated"), both, or neither.
Signals == SUBSET {"rate", "auth"}

NoExc == <<"none">>

\* The values a setting may take: the API key (empty when none was entered) and
\* the model name, which stands for the settings read together with it
\* (model, temperature, top_p, use_search, system_instruction).
Keys == {"", "k1", "k2"}

Models == {"m1", "m2"}

Configs == [api_key : Keys, model : Models]

\* What a worker holds before its settings were stored.
NoSettings == [api_key |-> "", model |-> ""]

\* The settings of the workers that are built without the interactive thread.
DefaultSettings == [api_key |-> "k1", model |-> "m1"]

\* A turn of a session history: {"role": ..., "text": ...}
Turn(role, text) == [role |-> role, text |-> text]

\* The histories a worker that runs alone may be given: none, one exchange,
\* and one with the same user turn twice in a row.
Histories ==
  { <<>>,
    <<Turn("user", "a"), Turn("model", "b")>>,
    <<Turn("user", "a"), Turn("user", "a"), Turn("model", "b")>> }

\* The sessions that fit in the window's data.
MaxSessions == NumWorkers

SessionIds == 1..MaxSessions

\* str(uuid.uuid4()): an id no session of d has.
fresh_id(d) ==
  CHOOSE i \in SessionIds \ DOMAIN d :
    \A j \in SessionIds \ DOMAIN d : i <= j

\* What HISTORY_FILE may hold when the window is built: nothing, or one
\* session with one exchange.
Stores == {<<>>, <<<<Turn("user", "a"), Turn("model", "b")>>>>}

\* Mutant of append_turn: the list is replaced by the new turn.
append_turn_replaces(history, turn) == <<turn>>

\* session["history"].append({"role": ..., "text": ...})
append_turn(history, turn) == Append(history, turn)

\* session["history"] without the slice: the turn just appended is handed on
but_last_keeps(history) == history

\* session["history"][:-1]
but_last(history) == SubSeq(history, 1, Len(history) - 1)

\* The text of the user turn of a send: prompt if prompt else "[Sent Files]"
user_text(p) == IF p # "" THEN p ELSE "[Sent Files]"

\* No worker was built in the slot.
NoSend == [session |-> 0, files |-> <<>>]

\* _cleanup_temp_resources: self.attached_files.clear()
cleanup_temp_resources(files) == <<>>

\* d without the session s: del self.data[sess_id]
without(d, s) == [t \in DOMAIN d \ {s} |-> d[t]]

\* create_new_session without its second line: no session is added
with_new_forgets(d, s) == d

\* d with a new session of an empty history
with_new(d, s) == [t \in DOMAIN d \cup {s} |-> IF t = s THEN <<>> ELSE d[t]]

\* The request typed into the window: a prompt and one attached image.
TypedRequests == {<<"hi", <<"a.png">>>>}

\* The threads that call the limiter directly.
Callers == {"t1", "t2"}

\* timeout of a direct acquire: None, 0, or the longest wait of the model.
Timeouts == {<<>>, <<0>>, <<WorkerTimeout>>}

\* The <<blocking, timeout>> of a caller that is not inside acquire.
NoArgs == <<TRUE, <<>>>>

\* The arguments a RateLimiter may be constructed with.
Capacities == {-1, 0, max_requests, max_requests + 1}

Periods == {0, period}

VARIABLES
  tokens,         \* RateLimiter.tokens
  timerLeft,      \* ticks until the pending refill Timer expires
  pc,             \* each worker's position in run()
  prompt,         \* GeminiWorker.prompt
  file_paths,     \* GeminiWorker.file_paths
  waited,         \* time.monotonic() - start_time of the worker's acquire
  acquired,       \* what the worker's acquire returned (FALSE until it returns)
  idx,            \* position of the attachment loop in file_paths
  current_parts,  \* current_parts of run()
  exc,            \* the exception in flight: NoExc or <<"raised", signal>>
  response,       \* response.text of the generation call ("none" before it)
  emitted,        \* the outcomes the worker has emitted (finished / error signals)
  released,       \* number of RATE_LIMITER.release() calls the worker made
  calls,          \* the client uses of the worker: client, upload, get, generate
  phase,          \* lifecycle step the worker performed last
  settings,       \* the settings stored by GeminiWorker.__init__
  history_context, \* GeminiWorker.history_context
  gemini_contents, \* gemini_contents of run()
  config,         \* GeminiBrowser.config, the live settings
  ui,             \* position of the interactive thread
  api_key,        \* local api_key of send_message
  config_at_entry, \* the live settings when the running send_message was entered
  call_pc,        \* each direct caller's position in RateLimiter.acquire
  call_args,      \* <<blocking, timeout>> of the caller's acquire
  call_waited,        \* time.monotonic() - start_time of the caller's acquire
  slept,          \* whether the caller's acquire has slept
  result,         \* what the caller's last acquire or release returned
  seen,           \* what the caller's last remaining() returned
  recent,         \* ages of the latest acquires that returned True
  built,          \* outcome of the latest RateLimiter(...) construction
  lock,           \* RateLimiter.lock: NoHolder, or <<thread>> of the thread inside a with-block
  ledger,         \* <<acquires that returned True, refill firings, release calls>> so far, when counted
  data,           \* GeminiBrowser.data: session id -> the "history" list of the session
  current_session_id, \* GeminiBrowser.current_session_id
  stored,         \* the sessions in HISTORY_FILE
  chat_list,      \* the session ids of the items of GeminiBrowser.chat_list
  handled,        \* how many of each worker's signals the interactive thread has handled
  sent,           \* the session and the files each worker was built from
  attached_files  \* GeminiBrowser.attached_files

\* The state read and written only through direct calls of the limiter.
limiterVars == <<call_pc, call_args, call_waited, slept, result, seen, recent, built>>

\* The turns a worker was given and the contents it builds from them.
historyVars == <<history_context, gemini_contents>>

\* The lock of the bucket and the count of what went in and out.
bucketVars == <<lock, ledger>>

\* The sessions of the window and what it has done with the workers' signals.
sessionVars ==
  <<data, current_session_id, stored, chat_list, handled, sent,
    attached_files>>

\* The state of the interactive thread.
uiVars == <<config, ui, api_key, config_at_entry>>

vars == <<tokens, timerLeft, pc, prompt, file_paths, waited, acquired, idx,
          current_parts, exc, response, emitted, released, calls, phase,
          settings, historyVars, uiVars, limiterVars, bucketVars, sessionVars>>

(* ----------------------------- RateLimiter ----------------------------- *)

Min(a, b) == IF a < b THEN a ELSE b

\* threading.Lock(): not held.
NoHolder == <<>>

\* Mutant of after_with: the lock is still held when the thread goes on.
after_with_keeps_lock(thread) == <<thread>>

\* The holder of the lock when a thread leaves a "with self.lock:" block.
after_with(thread) == NoHolder

\* The lock lets the thread run its with-block: it is free, or the thread has
\* taken it already.
may_run_with(thread) == lock \in {NoHolder, <<thread>>}

\* The thread of a worker, and the thread the refill Timer runs its function on.
ThreadOf(w) == ToString(w)

TimerThread == "timer"

\* No count is kept.
NoLedger == <<>>

\* The ledger with one more event of kind i (1: an acquire returned True,
\* 2: a refill firing, 3: a release call), when a count is kept.
counted(l, i) == IF l = NoLedger THEN l ELSE [l EXCEPT ![i] = @ + 1]

\* Mutant of token_available: the bucket is not looked at.
token_available_always(t) == TRUE

\* acquire, under the lock: is a token available
token_available(t) == t > 0

\* Mutant of take_token: the token is granted but not taken.
take_token_none(t) == t

\* acquire, under the lock: self.tokens -= 1
take_token(t) == t - 1

\* Mutants of release: the cap is forgotten; the token is not given back.
release_unclamped(t) == t + 1

release_forgets(t) == Min(t, max_requests)

\* release: self.tokens = min(self.tokens + 1, self.max_requests)
release(t) == Min(t + 1, max_requests)

\* Mutant of refill_token: the firing adds nothing.
refill_token_never(t) == t

\* Mutant of refill_token: the firing adds a token to a full bucket too.
refill_token_unclamped(t) == t + 1

\* _refill_token: if self.tokens < self.max_requests: self.tokens += 1
refill_token(t) == IF t < max_requests THEN t + 1 ELSE t

\* Mutant of gives_up: a call with a timeout gives up without looking at the
\* clock.
gives_up_early(blocking, timeout, elapsed) ==
  \/ ~blocking
  \/ timeout # <<>>

\* acquire, after a failed look at the bucket: TRUE iff it gives up
\* (not blocking, or the timeout has call_waited since start_time).
\* A timeout is <<>> (None) or <<n>>.
gives_up(blocking, timeout, elapsed) ==
  \/ ~blocking
  \/ (timeout # <<>> /\ elapsed >= timeout[1])

(* ------------------------- GeminiWorker helpers ------------------------ *)

\* mimetypes.guess_type(path), with the "text/plain" fallback, as
\* <<type, subtype>>.
guess_type(path) ==
  CASE path = "a.png" -> <<"image", "png">>
    [] path = "c.mp3" -> <<"audio", "mpeg">>
    [] path = "d.pdf" -> <<"application", "pdf">>
    [] path = "e.json" -> <<"application", "json">>
    [] OTHER -> <<"text", "plain">>

\* Mutant of is_media_or_pdf: every file is treated as text.
is_media_or_pdf_never(mime_type) == FALSE

is_media_or_pdf(mime_type) ==
  \/ mime_type[1] = "image"
  \/ mime_type[1] = "audio"
  \/ mime_type = <<"application", "pdf">>

\* Mutant of to_content: every entry is tagged as a user turn.
to_content_as_user(item) ==
  [role |-> "user", parts |-> <<<<"text", item.text>>>>]

\* types.Content(role=item['role'], parts=[Part.from_text(text=item['text'])])
to_content(item) ==
  [role |-> item.role, parts |-> <<<<"text", item.text>>>>]

\* for item in self.history_context: gemini_contents.append(...), started
\* with the contents built so far and the items still to go through
RECURSIVE build_history(_, _)
build_history(contents, items) ==
  IF items = <<>> THEN contents
  ELSE build_history(Append(contents, to_content(Head(items))), Tail(items))

\* types.Content(role="user", parts=current_parts)
new_turn(parts) == [role |-> "user", parts |-> parts]

\* Mutant of prompt_parts: the prompt is appended even when it is empty.
prompt_parts_always(p) == <<"prompt">>

\* if self.prompt: current_parts.append(Part.from_text(text=self.prompt))
prompt_parts(p) == IF p # "" THEN <<"prompt">> ELSE <<>>

\* if not current_parts: (the empty check)
is_empty_request(parts) == parts = <<>>

\* Mutant of response_outcomes: the else is missing, so the error follows the
\* success too.
response_outcomes_no_else(text) ==
  IF text # "" THEN <<"Success", "SafetyBlocked">> ELSE <<"SafetyBlocked">>

\* Mutant of response_outcomes: the text is not looked at.
response_outcomes_ignores_text(text) == <<"Success">>

\* if response.text: finished.emit(...) else: error.emit("Blocked ...")
response_outcomes(text) ==
  IF text # "" THEN <<"Success">> ELSE <<"SafetyBlocked">>

\* Mutant of classify: the auth marker is looked for first.
classify_auth_first(signal) ==
  IF "auth" \in signal THEN "AuthError"
  ELSE IF "rate" \in signal THEN "RateLimited"
  ELSE "Unknown"

\* the except clause: the kind of failure chosen from str(e)
classify(signal) ==
  IF "rate" \in signal THEN "RateLimited"
  ELSE IF "auth" \in signal THEN "AuthError"
  ELSE "Unknown"

\* Mutant of after_acquire_failed: the worker goes on without a token.
after_acquire_failed_goes_on == "client"

\* Where control goes when acquire returned False: the error is emitted and
\* run() returns.
after_acquire_failed == "acq_failed"

\* Mutant of after_file_dropped: a failed upload ends the attachment loop.
after_file_dropped_ends_loop == "prompt"

\* Where control goes when the upload of a file has failed: the exception is
\* caught and printed inside the loop, which goes on with the next path.
after_file_dropped == "files"

\* Mutant of after_worker_start: the interactive thread waits for the worker
\* it started.
after_worker_start_joins == "joined"

\* Where the interactive thread is after self.worker.start(): send_message
\* returns to the event loop.
after_worker_start == "ready"

\* Mutant of after_return: the worker tries again from its acquire.
after_return_retries == "acq_lock"

\* Mutant of after_return: the release is not in a finally clause reached by
\* every exit.
after_return_skips_finally == "done"

\* Where a return or the end of the try block or of the except clause leads:
\* the finally clause.
after_return == "finally"

(* -------------------------------- Init --------------------------------- *)

\* RateLimiter.__init__ (the bucket is full and the first Timer is started) and
\* the workers as constructed, not yet started.
InitRest ==
  /\ tokens = max_requests
  /\ timerLeft = start_refill_timer
  /\ pc = [w \in Workers |-> "idle"]
  /\ waited = [w \in Workers |-> 0]
  /\ acquired = [w \in Workers |-> FALSE]
  /\ idx = [w \in Workers |-> 0]
  /\ current_parts = [w \in Workers |-> <<>>]
  /\ exc = [w \in Workers |-> NoExc]
  /\ response = [w \in Workers |-> "none"]
  /\ emitted = [w \in Workers |-> <<>>]
  /\ released = [w \in Workers |-> 0]
  /\ calls = [w \in Workers |-> {}]
  /\ phase = [w \in Workers |-> "idle"]
  /\ gemini_contents = [w \in Workers |-> <<>>]
  /\ config = DefaultSettings
  /\ ui = "ready"
  /\ api_key = ""
  /\ config_at_entry = NoSettings
  /\ recent = <<>>
  /\ built = <<"none">>
  /\ lock = NoHolder

\* No window is up: there are no sessions and nothing handles the signals.
NoSessions ==
  /\ data = <<>>
  /\ current_session_id = 0
  /\ stored = <<>>
  /\ chat_list = {}
  /\ handled = <<>>
  /\ sent = <<>>
  /\ attached_files = <<>>

\* GeminiBrowser.__init__: the sessions are loaded from HISTORY_FILE, the
\* sidebar lists them, and create_new_session adds an empty session and makes
\* it current.
InitSessions ==
  /\ stored \in Stores
  /\ chat_list = DOMAIN stored
  /\ current_session_id = fresh_id(stored)
  /\ data = with_new(stored, current_session_id)
  /\ handled = [w \in Workers |-> 0]
  /\ sent = [w \in Workers |-> NoSend]

\* The threads T call the limiter directly; none of them is inside a call.
InitCallers(T) ==
  /\ call_pc = [c \in T |-> "idle"]
  /\ call_args = [c \in T |-> NoArgs]
  /\ call_waited = [c \in T |-> 0]
  /\ slept = [c \in T |-> FALSE]
  /\ result = [c \in T |-> "none"]
  /\ seen = [c \in T |-> <<>>]

\* GeminiWorker.__init__ stores the request of each worker.
Init ==
  /\ InitRest
  /\ InitCallers({})
  /\ ledger = NoLedger
  /\ NoSessions
  /\ \E r \in [Workers -> SharedRequests] :
       /\ prompt = [w \in Workers |-> r[w][1]]
       /\ file_paths = [w \in Workers |-> r[w][2]]
  /\ settings = [w \in Workers |-> DefaultSettings]
  /\ history_context = [w \in Workers |-> <<>>]

\* One worker, with any request, runs alone.
InitSolo ==
  /\ InitRest
  /\ InitCallers({})
  /\ ledger = NoLedger
  /\ NoSessions
  /\ \E r \in Requests :
       /\ prompt = [w \in Workers |-> IF w = 1 THEN r[1] ELSE ""]
       /\ file_paths = [w \in Workers |-> IF w = 1 THEN r[2] ELSE <<>>]
  /\ settings = [w \in Workers |-> IF w = 1 THEN DefaultSettings ELSE NoSettings]
  /\ \E h \in Histories :
       history_context = [w \in Workers |-> IF w = 1 THEN h ELSE <<>>]

(* ------------------------------- actions ------------------------------- *)

\* The thread of a worker that was built and started begins: run() enters
\* acquire, which reads start_time.
Start(w) ==
  /\ pc[w] = "idle"
  /\ settings[w] # NoSettings
  /\ pc' = [pc EXCEPT ![w] = "acq_lock"]
  /\ waited' = [waited EXCEPT ![w] = 0]
  /\ phase' = [phase EXCEPT ![w] = "acquire"]
  /\ UNCHANGED <<tokens, timerLeft, prompt, file_paths, acquired, idx,
                 current_parts, exc, response, emitted, released, calls>>
  /\ UNCHANGED <<settings, historyVars, uiVars, limiterVars>>
  /\ UNCHANGED bucketVars
  /\ UNCHANGED sessionVars

\* acquire: with self.lock: if self.tokens > 0: self.tokens -= 1; return True
AcquireLock(w) ==
  /\ pc[w] = "acq_lock"
  /\ may_run_with(ThreadOf(w))
  /\ lock' = after_with(ThreadOf(w))
  /\ IF token_available(tokens)
       THEN /\ tokens' = take_token(tokens)
            /\ ledger' = counted(ledger, 1)
            /\ acquired' = [acquired EXCEPT ![w] = TRUE]
            /\ waited' = [waited EXCEPT ![w] = 0]
            /\ pc' = [pc EXCEPT ![w] = "client"]
       ELSE /\ pc' = [pc EXCEPT ![w] = "acq_check"]
            /\ UNCHANGED <<tokens, acquired, waited, ledger>>
  /\ UNCHANGED <<timerLeft, prompt, file_paths, idx, current_parts, exc,
                 response, emitted, released, calls, phase>>
  /\ UNCHANGED <<settings, historyVars, uiVars, limiterVars>>
  /\ UNCHANGED sessionVars

\* acquire: if not blocking: return False; if timeout is not None and
\* time.monotonic() - start_time >= timeout: return False; time.sleep(0.1) and
\* the next round of the loop
AcquireCheck(w) ==
  /\ pc[w] = "acq_check"
  /\ IF gives_up(WorkerBlocking, WorkerTimeoutArg, waited[w])
       THEN /\ pc' = [pc EXCEPT ![w] = after_acquire_failed]
            /\ waited' = [waited EXCEPT ![w] = 0]
       ELSE /\ pc' = [pc EXCEPT ![w] = "acq_lock"]
            /\ UNCHANGED waited
  /\ UNCHANGED <<tokens, timerLeft, prompt, file_paths, acquired, idx,
                 current_parts, exc, response, emitted, released, calls,
                 phase>>
  /\ UNCHANGED <<settings, historyVars, uiVars, limiterVars>>
  /\ UNCHANGED bucketVars
  /\ UNCHANGED sessionVars

\* run: acquire returned False: error.emit("Rate limit exceeded: Could not
\* acquire token after waiting."); return
EmitAcquireTimeout(w) ==
  /\ pc[w] = "acq_failed"
  /\ emitted' = [emitted EXCEPT ![w] = Append(@, "RateLimited")]
  /\ phase' = [phase EXCEPT ![w] = "emit"]
  /\ pc' = [pc EXCEPT ![w] = after_return]
  /\ UNCHANGED <<tokens, timerLeft, prompt, file_paths, waited, acquired,
                 idx, current_parts, exc, response, released, calls>>
  /\ UNCHANGED <<settings, historyVars, uiVars, limiterVars>>
  /\ UNCHANGED bucketVars
  /\ UNCHANGED sessionVars

\* run: client = genai.Client(api_key=self.api_key), with the key stored at
\* construction; the history is copied into gemini_contents;
\* current_parts = [].  The constructor of the client may raise.
CreateClient(w) ==
  /\ pc[w] = "client"
  /\ calls' = [calls EXCEPT ![w] = @ \cup {"client"}]
  /\ phase' = [phase EXCEPT ![w] = "build"]
  /\ \/ /\ pc' = [pc EXCEPT ![w] = "files"]
        /\ idx' = [idx EXCEPT ![w] = 1]
        /\ current_parts' = [current_parts EXCEPT ![w] = <<>>]
        /\ gemini_contents' =
             [gemini_contents EXCEPT
                ![w] = build_history(<<>>, history_context[w])]
        /\ UNCHANGED exc
     \/ \E sig \in Signals :
          /\ exc' = [exc EXCEPT ![w] = <<"raised", sig>>]
          /\ pc' = [pc EXCEPT ![w] = "except"]
          /\ UNCHANGED <<idx, current_parts, gemini_contents>>
  /\ UNCHANGED <<tokens, timerLeft, prompt, file_paths, waited, acquired,
                 response, emitted, released>>
  /\ UNCHANGED <<settings, history_context, uiVars, limiterVars>>
  /\ UNCHANGED bucketVars
  /\ UNCHANGED sessionVars

\* run: one round of "for path_str in self.file_paths" up to the upload: a
\* missing path is skipped, a media file goes to the upload, any other file is
\* read and inlined (or skipped when it cannot be read); after the last path
\* the loop ends.
NextFile(w) ==
  /\ pc[w] = "files"
  /\ IF idx[w] > Len(file_paths[w])
       THEN /\ pc' = [pc EXCEPT ![w] = "prompt"]
            /\ UNCHANGED <<idx, current_parts, phase>>
       ELSE \E exists \in BOOLEAN :
              IF ~exists
                THEN /\ idx' = [idx EXCEPT ![w] = @ + 1]
                     /\ phase' = [phase EXCEPT ![w] = "build"]
                     /\ UNCHANGED <<pc, current_parts>>
              ELSE IF is_media_or_pdf(guess_type(file_paths[w][idx[w]]))
                THEN /\ pc' = [pc EXCEPT ![w] = "upload"]
                     /\ phase' = [phase EXCEPT ![w] = "build"]
                     /\ UNCHANGED <<idx, current_parts>>
              ELSE \E readable \in BOOLEAN :
                     /\ current_parts' =
                          [current_parts EXCEPT ![w] =
                             IF readable
                               THEN Append(@, <<"text", file_paths[w][idx[w]]>>)
                               ELSE @]
                     /\ idx' = [idx EXCEPT ![w] = @ + 1]
                     /\ phase' = [phase EXCEPT ![w] = "build"]
                     /\ UNCHANGED pc
  /\ UNCHANGED <<tokens, timerLeft, prompt, file_paths, waited, acquired,
                 exc, response, emitted, released, calls>>
  /\ UNCHANGED <<settings, historyVars, uiVars, limiterVars>>
  /\ UNCHANGED bucketVars
  /\ UNCHANGED sessionVars

\* What follows an answer of the File API about the uploaded file: PROCESSING
\* keeps the worker polling, ACTIVE appends the reference, FAILED raises and,
\* like an exception of the call itself, drops the file.
AfterFileState(w, state) ==
  CASE state = "PROCESSING" ->
         /\ pc' = [pc EXCEPT ![w] = "poll"]
         /\ UNCHANGED <<idx, current_parts>>
    [] state = "ACTIVE" ->
         /\ current_parts' =
              [current_parts EXCEPT ![w] =
                 Append(@, <<"uri", file_paths[w][idx[w]]>>)]
         /\ idx' = [idx EXCEPT ![w] = @ + 1]
         /\ pc' = [pc EXCEPT ![w] = "files"]
    [] OTHER ->
         /\ idx' = [idx EXCEPT ![w] = @ + 1]
         /\ pc' = [pc EXCEPT ![w] = after_file_dropped]
         /\ UNCHANGED current_parts

\* What a call of the File API gives: the state of the file, or an exception.
FileAnswers == {"PROCESSING", "ACTIVE", "FAILED", "exception"}

\* run: uploaded_file = client.files.upload(path=path)
Upload(w) ==
  /\ pc[w] = "upload"
  /\ calls' = [calls EXCEPT ![w] = @ \cup {"upload"}]
  /\ phase' = [phase EXCEPT ![w] = "upload"]
  /\ \E state \in FileAnswers : AfterFileState(w, state)
  /\ UNCHANGED <<tokens, timerLeft, prompt, file_paths, waited, acquired,
                 exc, response, emitted, released>>
  /\ UNCHANGED <<settings, historyVars, uiVars, limiterVars>>
  /\ UNCHANGED bucketVars
  /\ UNCHANGED sessionVars

\* run: while uploaded_file.state.name == "PROCESSING": time.sleep(1)
PollSleep(w) ==
  /\ pc[w] = "poll"
  /\ pc' = [pc EXCEPT ![w] = "poll_get"]
  /\ UNCHANGED <<tokens, timerLeft, prompt, file_paths, waited, acquired,
                 idx, current_parts, exc, response, emitted, released, calls,
                 phase>>
  /\ UNCHANGED <<settings, historyVars, uiVars, limiterVars>>
  /\ UNCHANGED bucketVars
  /\ UNCHANGED sessionVars

\* run: uploaded_file = client.files.get(name=uploaded_file.name), and the
\* loop condition is looked at again
PollGet(w) ==
  /\ pc[w] = "poll_get"
  /\ calls' = [calls EXCEPT ![w] = @ \cup {"get"}]
  /\ phase' = [phase EXCEPT ![w] = "upload"]
  /\ \E state \in FileAnswers : AfterFileState(w, state)
  /\ UNCHANGED <<tokens, timerLeft, prompt, file_paths, waited, acquired,
                 exc, response, emitted, released>>
  /\ UNCHANGED <<settings, historyVars, uiVars, limiterVars>>
  /\ UNCHANGED bucketVars
  /\ UNCHANGED sessionVars

\* run: the prompt part is appended when the prompt is not empty; with no part
\* at all the error "No content to send" is emitted and run() returns (the
\* contents built are not read again); otherwise the new user turn is appended
\* to gemini_contents.
AddPrompt(w) ==
  /\ pc[w] = "prompt"
  /\ LET parts == current_parts[w] \o prompt_parts(prompt[w])
     IN  /\ current_parts' = [current_parts EXCEPT ![w] = parts]
         /\ IF is_empty_request(parts)
              THEN /\ emitted' = [emitted EXCEPT ![w] = Append(@, "InvalidRequest")]
                   /\ phase' = [phase EXCEPT ![w] = "emit"]
                   /\ pc' = [pc EXCEPT ![w] = after_return]
                   /\ gemini_contents' = [gemini_contents EXCEPT ![w] = <<>>]
              ELSE /\ phase' = [phase EXCEPT ![w] = "build"]
                   /\ pc' = [pc EXCEPT ![w] = "call"]
                   /\ gemini_contents' =
                        [gemini_contents EXCEPT ![w] = Append(@, new_turn(parts))]
                   /\ UNCHANGED emitted
  /\ UNCHANGED <<tokens, timerLeft, prompt, file_paths, waited, acquired,
                 idx, exc, response, released, calls>>
  /\ UNCHANGED <<settings, history_context, uiVars, limiterVars>>
  /\ UNCHANGED bucketVars
  /\ UNCHANGED sessionVars

ResponseTexts == {"", "answer"}

\* run: response = client.models.generate_content(model=self.model, ...) is
\* handed the stored settings and the turns built so far (they are not read
\* again); it returns a response whose text may be empty, or raises.
GenerateContent(w) ==
  /\ pc[w] = "call"
  /\ calls' = [calls EXCEPT ![w] = @ \cup {"generate"}]
  /\ phase' = [phase EXCEPT ![w] = "call"]
  /\ idx' = [idx EXCEPT ![w] = 0]
  /\ current_parts' = [current_parts EXCEPT ![w] = <<>>]
  /\ gemini_contents' = [gemini_contents EXCEPT ![w] = <<>>]
  /\ \/ \E text \in ResponseTexts :
          /\ response' = [response EXCEPT ![w] = text]
          /\ pc' = [pc EXCEPT ![w] = "respond"]
          /\ UNCHANGED exc
     \/ \E sig \in Signals :
          /\ exc' = [exc EXCEPT ![w] = <<"raised", sig>>]
          /\ pc' = [pc EXCEPT ![w] = "except"]
          /\ UNCHANGED response
  /\ UNCHANGED <<tokens, timerLeft, prompt, file_paths, waited, acquired,
                 emitted, released>>
  /\ UNCHANGED <<settings, history_context, uiVars, limiterVars>>
  /\ UNCHANGED bucketVars
  /\ UNCHANGED sessionVars

\* run: if response.text: self.finished.emit(response.text)
\*      else: self.error.emit("Blocked by Safety Filters (Empty Response)")
EmitResponse(w) ==
  /\ pc[w] = "respond"
  /\ emitted' = [emitted EXCEPT ![w] = @ \o response_outcomes(response[w])]
  /\ phase' = [phase EXCEPT ![w] = "emit"]
  /\ pc' = [pc EXCEPT ![w] = after_return]
  /\ UNCHANGED <<tokens, timerLeft, prompt, file_paths, waited, acquired,
                 idx, current_parts, exc, response, released, calls>>
  /\ UNCHANGED <<settings, historyVars, uiVars, limiterVars>>
  /\ UNCHANGED bucketVars
  /\ UNCHANGED sessionVars

\* run: except Exception as e: one error is emitted, chosen from str(e); e is
\* unbound when the clause ends
HandleException(w) ==
  /\ pc[w] = "except"
  /\ emitted' = [emitted EXCEPT ![w] = Append(@, classify(exc[w][2]))]
  /\ exc' = [exc EXCEPT ![w] = NoExc]
  /\ phase' = [phase EXCEPT ![w] = "emit"]
  /\ pc' = [pc EXCEPT ![w] = after_return]
  /\ UNCHANGED <<tokens, timerLeft, prompt, file_paths, waited, acquired,
                 idx, current_parts, response, released, calls>>
  /\ UNCHANGED <<settings, historyVars, uiVars, limiterVars>>
  /\ UNCHANGED bucketVars
  /\ UNCHANGED sessionVars

\* run: finally: GeminiWorker.RATE_LIMITER.release(), then run() ends: its
\* locals are gone and the finished worker's request is not read again
Release(w) ==
  /\ pc[w] = "finally"
  /\ may_run_with(ThreadOf(w))
  /\ lock' = after_with(ThreadOf(w))
  /\ ledger' = counted(ledger, 3)
  /\ tokens' = release(tokens)
  /\ released' = [released EXCEPT ![w] = @ + 1]
  /\ phase' = [phase EXCEPT ![w] = "release"]
  /\ pc' = [pc EXCEPT ![w] = "done"]
  /\ idx' = [idx EXCEPT ![w] = 0]
  /\ current_parts' = [current_parts EXCEPT ![w] = <<>>]
  /\ response' = [response EXCEPT ![w] = "none"]
  /\ prompt' = [prompt EXCEPT ![w] = ""]
  /\ file_paths' = [file_paths EXCEPT ![w] = <<>>]
  /\ settings' = [settings EXCEPT ![w] = NoSettings]
  /\ history_context' = [history_context EXCEPT ![w] = <<>>]
  /\ UNCHANGED <<timerLeft, waited, acquired, exc, emitted, calls>>
  /\ UNCHANGED <<gemini_contents, uiVars, limiterVars>>
  /\ UNCHANGED sessionVars

\* _refill_token, run by the expired Timer: one token is added below capacity
\* and _start_refill_timer starts the next Timer.
RefillToken ==
  /\ timerLeft = 0
  /\ may_run_with(TimerThread)
  /\ lock' = after_with(TimerThread)
  /\ ledger' = counted(ledger, 2)
  /\ tokens' = refill_token(tokens)
  /\ timerLeft' = start_refill_timer
  /\ UNCHANGED <<pc, prompt, file_paths, waited, acquired, idx, current_parts,
                 exc, response, emitted, released, calls, phase>>
  /\ UNCHANGED <<settings, historyVars, uiVars, limiterVars>>
  /\ UNCHANGED sessionVars

InAcquire(w) == pc[w] \in {"acq_lock", "acq_check"}

\* The ages one tick later: an age beyond the period is forgotten.
older(ages) == SelectSeq([i \in 1..Len(ages) |-> ages[i] + 1],
                         LAMBDA a : a <= period)

\* One tick of the monotonic clock passes: every running acquire has waited
\* one tick more (counted up to its timeout, beyond which nothing changes) and
\* the pending Timer is one tick closer to expiry.
Tick ==
  /\ waited' = [w \in Workers |->
                  IF InAcquire(w) /\ waited[w] < WorkerTimeout
                    THEN waited[w] + 1 ELSE waited[w]]
  /\ call_waited' = [c \in DOMAIN call_pc |->
                   IF call_pc[c] # "idle" /\ call_waited[c] < WorkerTimeout
                     THEN call_waited[c] + 1 ELSE call_waited[c]]
  /\ recent' = older(recent)
  /\ timerLeft' = IF timerLeft > 0 THEN timerLeft - 1 ELSE 0
  /\ UNCHANGED <<tokens, pc, prompt, file_paths, acquired, idx, current_parts,
                 exc, response, emitted, released, calls, phase>>
  /\ UNCHANGED <<settings, historyVars, uiVars>>
  /\ UNCHANGED <<call_pc, call_args, slept, result, seen, built>>
  /\ UNCHANGED bucketVars
  /\ UNCHANGED sessionVars

(* ------------------------ the interactive thread ----------------------- *)

\* GeminiWorker objects not yet built.
Unbuilt(w) == pc[w] = "idle" /\ settings[w] = NoSettings

\* send_message up to scroll_to_bottom(): the API key is read; with no key a
\* warning is shown and nothing is sent; otherwise the user bubble is added
\* and QApplication.processEvents() lets the handlers of pending events run
\* inside send_message.
SendBegin ==
  /\ ui = "ready"
  /\ \E w \in Workers : Unbuilt(w)
  /\ IF config.api_key = ""
       THEN UNCHANGED <<ui, api_key, config_at_entry>>
       ELSE /\ ui' = "sending"
            /\ api_key' = config.api_key
            /\ config_at_entry' = config
  /\ UNCHANGED <<tokens, timerLeft, pc, prompt, file_paths, waited, acquired,
                 idx, current_parts, exc, response, emitted, released, calls,
                 phase, settings, historyVars, config, limiterVars>>
  /\ UNCHANGED bucketVars
  /\ UNCHANGED sessionVars

\* send_message after scroll_to_bottom(): the other settings are read, the
\* worker is built from them and from the key read before, its signals are
\* connected and its thread is started; send_message returns.
SendFinish(w, r) ==
  /\ ui = "sending"
  /\ Unbuilt(w)
  /\ \A v \in Workers : v < w => ~Unbuilt(v)
  /\ r[2] = attached_files
  /\ sent' = [sent EXCEPT
                ![w] = [session |-> current_session_id, files |-> r[2]]]
  /\ current_session_id \in DOMAIN data
  /\ chat_list' = IF data[current_session_id] = <<>>
                    THEN DOMAIN data ELSE chat_list
  /\ data' = [data EXCEPT
                ![current_session_id] =
                   append_turn(@, Turn("user", user_text(r[1])))]
  /\ prompt' = [prompt EXCEPT ![w] = r[1]]
  /\ file_paths' = [file_paths EXCEPT ![w] = r[2]]
  /\ settings' = [settings EXCEPT
                    ![w] = [api_key |-> api_key, model |-> config.model]]
  /\ history_context' = [history_context EXCEPT
                           ![w] = but_last(data'[current_session_id])]
  /\ ui' = after_worker_start
  /\ api_key' = ""
  /\ config_at_entry' = NoSettings
  /\ UNCHANGED <<tokens, timerLeft, pc, waited, acquired, idx, current_parts,
                 exc, response, emitted, released, calls, phase, config,
                 gemini_contents, limiterVars>>
  /\ UNCHANGED <<current_session_id, stored, handled, attached_files>>
  /\ UNCHANGED bucketVars

\* Everything but the sessions and the handled signals.
unsessioned ==
  <<tokens, timerLeft, pc, prompt, file_paths, waited, acquired, idx,
    current_parts, exc, response, emitted, released, calls, phase, settings,
    historyVars, uiVars, limiterVars, bucketVars>>

\* The interactive thread runs its event loop, or the one of processEvents
\* inside send_message: it may run a handler.
InEventLoop == ui \in {"ready", "sending"}

\* The next signal of the worker that the interactive thread has not handled.
Pending(w) == emitted[w][handled[w] + 1]

\* The text a finished signal carries: response.text, which is not empty.
finished_text == CHOOSE text \in ResponseTexts : text # ""

\* on_response_success, from the append on (what comes before it draws the
\* bubble and runs processEvents): the model turn is appended to the history
\* of the current session and the sessions are saved.
OnResponseSuccess(w) ==
  /\ InEventLoop
  /\ handled[w] < Len(emitted[w])
  /\ Pending(w) = "Success"
  /\ current_session_id \in DOMAIN data
  /\ data' = [data EXCEPT
                ![current_session_id] =
                   append_turn(@, Turn("model", finished_text))]
  /\ stored' = data'
  /\ handled' = [handled EXCEPT ![w] = @ + 1]
  /\ attached_files' = cleanup_temp_resources(attached_files)
  /\ UNCHANGED <<current_session_id, chat_list, sent>>
  /\ UNCHANGED unsessioned

\* on_response_error: the error is shown.
OnResponseError(w) ==
  /\ InEventLoop
  /\ handled[w] < Len(emitted[w])
  /\ Pending(w) # "Success"
  /\ handled' = [handled EXCEPT ![w] = @ + 1]
  /\ UNCHANGED <<data, current_session_id, stored, chat_list, sent,
                 attached_files>>
  /\ UNCHANGED unsessioned

\* create_new_session ("New Chat"): an empty session is added and made current.
CreateNewSession ==
  /\ InEventLoop
  /\ DOMAIN data # SessionIds
  /\ current_session_id' = fresh_id(data)
  /\ data' = with_new(data, current_session_id')
  /\ attached_files' = cleanup_temp_resources(attached_files)
  /\ UNCHANGED <<stored, chat_list, handled, sent>>
  /\ UNCHANGED unsessioned

\* load_session_from_list: an item of the sidebar is clicked.
LoadSession(s) ==
  /\ InEventLoop
  /\ s \in chat_list
  /\ current_session_id' = s
  /\ UNCHANGED <<data, stored, chat_list, handled, sent, attached_files>>
  /\ UNCHANGED unsessioned

\* delete_session of an item of the sidebar: the session is removed and the
\* sessions are saved; the sidebar is rebuilt; when the session was the current
\* one, create_new_session runs.
DeleteSession(s) ==
  /\ InEventLoop
  /\ s \in chat_list
  /\ IF s \in DOMAIN data
       THEN /\ stored' = without(data, s)
            /\ chat_list' = DOMAIN stored'
            /\ IF s = current_session_id
                 THEN /\ current_session_id' = fresh_id(stored')
                      /\ data' = with_new(stored', current_session_id')
                      /\ attached_files' =
                           cleanup_temp_resources(attached_files)
                 ELSE /\ data' = stored'
                      /\ UNCHANGED <<current_session_id, attached_files>>
       ELSE UNCHANGED <<data, current_session_id, stored, chat_list,
                        attached_files>>
  /\ UNCHANGED <<handled, sent>>
  /\ UNCHANGED unsessioned

\* rename_session of an item of the sidebar, with a name given: the title is
\* set, the sessions are saved and the sidebar is rebuilt.
RenameSession(s) ==
  /\ InEventLoop
  /\ s \in chat_list
  /\ IF s \in DOMAIN data
       THEN /\ stored' = data
            /\ chat_list' = DOMAIN data
       ELSE UNCHANGED <<stored, chat_list>>
  /\ UNCHANGED <<data, current_session_id, handled, sent, attached_files>>
  /\ UNCHANGED unsessioned

\* _process_new_attachments: the user attaches a file that is no archive, to
\* an empty list.
AttachFiles(path) ==
  /\ InEventLoop
  /\ attached_files = <<>>
  /\ attached_files' = Append(attached_files, path)
  /\ UNCHANGED <<data, current_session_id, stored, chat_list, handled, sent>>
  /\ UNCHANGED unsessioned

\* SettingsDialog.save_general_settings, reached from open_settings: the key
\* and the model are written into the live settings.  The dialog is opened
\* from the event loop or from processEvents() inside send_message.
SaveGeneralSettings(key, model) ==
  /\ ui \in {"ready", "sending"}
  /\ config' = [api_key |-> key, model |-> model]
  /\ config' # config
  /\ UNCHANGED <<tokens, timerLeft, pc, prompt, file_paths, waited, acquired,
                 idx, current_parts, exc, response, emitted, released, calls,
                 phase, settings, historyVars, ui, api_key, config_at_entry,
                 limiterVars>>
  /\ UNCHANGED bucketVars
  /\ UNCHANGED sessionVars

(* ----------------------- direct calls of the limiter ------------------- *)

\* RateLimiter.__init__: the fields of the new limiter (max_requests, period,
\* tokens, refill_interval as the fraction period / max_requests, auto_refill),
\* or the exception the division ends in.
construct(mr, per, auto) ==
  IF mr = 0 THEN <<"ZeroDivisionError">>
  ELSE <<"RateLimiter", mr, per, mr, <<per, mr>>, auto>>

\* Some thread constructs a further limiter.
Construct(mr, per, auto) ==
  /\ built' = construct(mr, per, auto)
  /\ UNCHANGED <<tokens, timerLeft, pc, prompt, file_paths, waited, acquired,
                 idx, current_parts, exc, response, emitted, released, calls,
                 phase, settings, historyVars, uiVars>>
  /\ UNCHANGED <<call_pc, call_args, call_waited, slept, result, seen, recent>>
  /\ UNCHANGED bucketVars
  /\ UNCHANGED sessionVars

\* The ages after one more acquire returned True: as many of the latest are
\* kept as it takes to see that there were more than max_requests.
granted(ages) ==
  SubSeq(<<0>> \o ages, 1, Min(Len(ages) + 1, max_requests + 1))

\* A caller is back from acquire: the locals of the call are gone.
Returned(c, value) ==
  /\ result' = [result EXCEPT ![c] = value]
  /\ call_pc' = [call_pc EXCEPT ![c] = "idle"]
  /\ call_args' = [call_args EXCEPT ![c] = NoArgs]
  /\ call_waited' = [call_waited EXCEPT ![c] = 0]
  /\ slept' = [slept EXCEPT ![c] = FALSE]

\* acquire(blocking, timeout) is entered: start_time = time.monotonic()
CallAcquire(c, blocking, timeout) ==
  /\ call_pc[c] = "idle"
  /\ call_pc' = [call_pc EXCEPT ![c] = "lock"]
  /\ call_args' = [call_args EXCEPT ![c] = <<blocking, timeout>>]
  /\ call_waited' = [call_waited EXCEPT ![c] = 0]
  /\ slept' = [slept EXCEPT ![c] = FALSE]
  /\ result' = [result EXCEPT ![c] = "none"]
  /\ seen' = [seen EXCEPT ![c] = <<>>]
  /\ UNCHANGED <<tokens, timerLeft, pc, prompt, file_paths, waited, acquired,
                 idx, current_parts, exc, response, emitted, released, calls,
                 phase, settings, historyVars, uiVars, recent, built>>
  /\ UNCHANGED bucketVars
  /\ UNCHANGED sessionVars

\* acquire: with self.lock: if self.tokens > 0: self.tokens -= 1; return True
AcquirePoll(c) ==
  /\ call_pc[c] = "lock"
  /\ may_run_with(c)
  /\ lock' = after_with(c)
  /\ IF token_available(tokens)
       THEN /\ tokens' = take_token(tokens)
            /\ ledger' = counted(ledger, 1)
            /\ recent' = granted(recent)
            /\ Returned(c, "True")
       ELSE /\ call_pc' = [call_pc EXCEPT ![c] = "check"]
            /\ UNCHANGED <<tokens, recent, call_args, call_waited, slept,
                           result, ledger>>
  /\ UNCHANGED <<timerLeft, pc, prompt, file_paths, waited, acquired, idx,
                 current_parts, exc, response, emitted, released, calls,
                 phase, settings, historyVars, uiVars, seen, built>>
  /\ UNCHANGED sessionVars

\* acquire: if not blocking: return False; if timeout is not None and
\* time.monotonic() - start_time >= timeout: return False; time.sleep(0.1) and
\* the next round of the loop
AcquireRetry(c) ==
  /\ call_pc[c] = "check"
  /\ IF gives_up(call_args[c][1], call_args[c][2], call_waited[c])
       THEN Returned(c, "False")
       ELSE /\ slept' = [slept EXCEPT ![c] = TRUE]
            /\ call_pc' = [call_pc EXCEPT ![c] = "lock"]
            /\ UNCHANGED <<call_args, call_waited, result>>
  /\ UNCHANGED <<tokens, timerLeft, pc, prompt, file_paths, waited, acquired,
                 idx, current_parts, exc, response, emitted, released, calls,
                 phase, settings, historyVars, uiVars, seen, recent, built>>
  /\ UNCHANGED bucketVars
  /\ UNCHANGED sessionVars

\* release(): with self.lock: self.tokens = min(self.tokens + 1, max_requests)
CallRelease(c) ==
  /\ call_pc[c] = "idle"
  /\ may_run_with(c)
  /\ lock' = after_with(c)
  /\ ledger' = counted(ledger, 3)
  /\ tokens' = release(tokens)
  /\ result' = [result EXCEPT ![c] = "None"]
  /\ seen' = [seen EXCEPT ![c] = <<>>]
  /\ UNCHANGED <<timerLeft, pc, prompt, file_paths, waited, acquired, idx,
                 current_parts, exc, response, emitted, released, calls,
                 phase, settings, historyVars, uiVars, call_pc, call_args,
                 call_waited, slept, recent, built>>
  /\ UNCHANGED sessionVars

\* remaining(): with self.lock: return self.tokens
CallRemaining(c) ==
  /\ call_pc[c] = "idle"
  /\ may_run_with(c)
  /\ lock' = after_with(c)
  /\ UNCHANGED ledger
  /\ seen' = [seen EXCEPT ![c] = <<tokens>>]
  /\ result' = [result EXCEPT ![c] = "none"]
  /\ UNCHANGED <<tokens, timerLeft, pc, prompt, file_paths, waited, acquired,
                 idx, current_parts, exc, response, emitted, released, calls,
                 phase, settings, historyVars, uiVars, call_pc, call_args,
                 call_waited, slept, recent, built>>
  /\ UNCHANGED sessionVars

\* The steps of run() when the bucket had a token at the first look.
Run(w) ==
  \/ Start(w)
  \/ AcquireLock(w)
  \/ CreateClient(w)
  \/ NextFile(w)
  \/ Upload(w)
  \/ PollSleep(w)
  \/ PollGet(w)
  \/ AddPrompt(w)
  \/ GenerateContent(w)
  \/ EmitResponse(w)
  \/ HandleException(w)
  \/ Release(w)

\* The steps of run() after a look at an empty bucket.
Wait(w) ==
  \/ AcquireCheck(w)
  \/ EmitAcquireTimeout(w)

Next ==
  \/ \E w \in Workers : Run(w)
  \/ \E w \in Workers : Wait(w)
  \/ RefillToken
  \/ Tick

\* The workers run side by side on the shared bucket.
Spec == Init /\ [][Next]_vars

\* A worker that runs alone finds the bucket full: it never waits.
NextSolo ==
  \/ Run(1)
  \/ RefillToken
  \/ Tick

SpecSolo == InitSolo /\ [][NextSolo]_vars

\* A worker that runs alone and is done before the refill Timer expires: no
\* other thread touches the bucket during its run.
NextQuiet == Run(1)

SpecQuiet == InitSolo /\ [][NextQuiet]_vars

\* The thread of the worker keeps being scheduled.
FairSolo == SpecSolo /\ WF_vars(Run(1))

\* The handlers the user may trigger.
Handle ==
  \/ SendBegin
  \/ \E w \in Workers, r \in TypedRequests : SendFinish(w, r)
  \/ \E key \in Keys, model \in Models : SaveGeneralSettings(key, model)

NextCaller ==
  \/ Handle
  \/ \E w \in Workers : Run(w)
  \/ \E w \in Workers : AcquireCheck(w)

\* No worker was built yet.
InitUnbuilt ==
  /\ InitRest
  /\ prompt = [w \in Workers |-> ""]
  /\ file_paths = [w \in Workers |-> <<>>]
  /\ settings = [w \in Workers |-> NoSettings]
  /\ history_context = [w \in Workers |-> <<>>]

\* The window is up: the limiter is used by the workers only.
InitWindow ==
  /\ InitUnbuilt
  /\ InitCallers({})
  /\ ledger = NoLedger
  /\ InitSessions
  /\ attached_files \in {r[2] : r \in TypedRequests}

\* The window was just built: nothing is attached.
InitSession ==
  /\ InitUnbuilt
  /\ InitCallers({})
  /\ ledger = NoLedger
  /\ InitSessions
  /\ attached_files = <<>>

\* The limiter is used by the threads that call it directly.
InitLimiter ==
  /\ InitUnbuilt
  /\ InitCallers(Callers)
  /\ ledger = NoLedger
  /\ NoSessions

\* The window is up and the user sends requests and changes settings while
\* the workers run, all within one tick: no acquire times out and no refill
\* Timer fires.
SpecCaller == InitWindow /\ [][NextCaller]_vars

\* The steps of a thread inside acquire.
Acquiring(c) ==
  \/ AcquirePoll(c)
  \/ AcquireRetry(c)

\* The calls a thread may make.
Direct(c) ==
  \/ \E blocking \in BOOLEAN, timeout \in Timeouts :
       CallAcquire(c, blocking, timeout)
  \/ CallRelease(c)
  \/ CallRemaining(c)

NextLimiter ==
  \/ \E c \in Callers : Direct(c)
  \/ \E c \in Callers : Acquiring(c)
  \/ RefillToken
  \/ Tick

\* Threads call acquire, release and remaining in any order while the refill
\* Timer runs.
SpecLimiter == InitLimiter /\ [][NextLimiter]_vars

\* The same, with every thread, the Timer and the clock going on.
FairLimiter ==
  /\ SpecLimiter
  /\ WF_vars(RefillToken)
  /\ WF_vars(Tick)
  /\ \A c \in Callers : WF_vars(Acquiring(c))

\* Threads call the blocking acquire with no timeout again and again while the
\* refill Timer runs.
NextWaiters ==
  \/ \E c \in Callers : CallAcquire(c, TRUE, <<>>)
  \/ \E c \in Callers : Acquiring(c)
  \/ RefillToken
  \/ Tick

\* Every thread inside acquire, the Timer and the clock go on.
FairWaiters ==
  /\ InitLimiter
  /\ [][NextWaiters]_vars
  /\ WF_vars(RefillToken)
  /\ WF_vars(Tick)
  /\ \A c \in Callers : WF_vars(Acquiring(c))

\* One thread makes every kind of call, and constructs limiters with any
\* arguments.
NextAnyLimiter ==
  \/ Direct("t1")
  \/ Acquiring("t1")
  \/ RefillToken
  \/ Tick
  \/ \E mr \in Capacities, per \in Periods, auto \in BOOLEAN :
       Construct(mr, per, auto)

SpecAnyLimiter == InitLimiter /\ [][NextAnyLimiter]_vars

\* A burst: threads call acquire and remaining within one tick while nothing
\* gives a token back (no release is called and no refill Timer fires).
NextDrain ==
  \/ \E c \in Callers, blocking \in BOOLEAN, timeout \in Timeouts :
       CallAcquire(c, blocking, timeout)
  \/ \E c \in Callers : CallRemaining(c)
  \/ \E c \in Callers : Acquiring(c)

SpecDrain == InitLimiter /\ [][NextDrain]_vars

\* The acquires that returned True within the last period, and the calls still
\* inside acquire, are fewer than the capacity: one more call keeps the number
\* of calls of any one period within the capacity.
within_rate ==
  Len(recent) + Cardinality({c \in Callers : call_pc[c] # "idle"}) < max_requests

\* A call of acquire by a thread that keeps to the rate.
PacedAcquire(c, blocking, timeout) ==
  /\ within_rate
  /\ CallAcquire(c, blocking, timeout)

NextPaced ==
  \/ \E c \in Callers, blocking \in BOOLEAN, timeout \in Timeouts :
       PacedAcquire(c, blocking, timeout)
  \/ \E c \in Callers : Acquiring(c)
  \/ RefillToken
  \/ Tick

\* Threads only call acquire, and never more often than the capacity allows
\* within a period.
SpecPaced == InitLimiter /\ [][NextPaced]_vars

\* The refill firings and release calls that are counted.
MaxEvents == max_requests + 1

\* The count starts with the limiter.
InitLedger ==
  /\ InitUnbuilt
  /\ InitCallers(Callers)
  /\ ledger = <<0, 0, 0>>
  /\ NoSessions

\* A token may still be given back within the count.
events_left == ledger[2] + ledger[3] < MaxEvents

\* A refill firing or a release call.
GiveBack ==
  \/ RefillToken
  \/ \E c \in Callers : CallRelease(c)

NextLedger ==
  \/ \E c \in Callers, blocking \in BOOLEAN, timeout \in Timeouts :
       CallAcquire(c, blocking, timeout)
  \/ \E c \in Callers : Acquiring(c)
  \/ events_left /\ GiveBack
  \/ Tick

\* Threads call acquire and release in any order while the refill Timer runs,
\* and what goes in and out of the bucket is counted.
SpecLedger == InitLedger /\ [][NextLedger]_vars

\* Everything but the lock.
unlocked ==
  <<tokens, timerLeft, pc, prompt, file_paths, waited, acquired, idx,
    current_parts, exc, response, emitted, released, calls, phase, settings,
    historyVars, uiVars, limiterVars, ledger, sessionVars>>

\* "with self.lock:" is entered: the thread takes the lock when it is free,
\* and has not run the block yet.
EnterWith(thread) ==
  /\ lock = NoHolder
  /\ lock' = <<thread>>
  /\ UNCHANGED unlocked

\* A worker is at a with-block of the limiter: the one of acquire or the one
\* of release.
AtWith(w) == pc[w] \in {"acq_lock", "finally"}

\* A worker enters the with-block it is at.
WorkerEnters(w) ==
  /\ AtWith(w)
  /\ EnterWith(ThreadOf(w))

\* The Timer has expired and its thread enters the with-block of
\* _refill_token.
TimerEnters ==
  /\ timerLeft = 0
  /\ EnterWith(TimerThread)

\* A request of a prompt alone.
PlainRequest == <<"hi", <<>>>>

\* Every worker was built with a prompt and no attachment.
InitPlain ==
  /\ InitRest
  /\ InitCallers({})
  /\ NoSessions
  /\ prompt = [w \in Workers |-> PlainRequest[1]]
  /\ file_paths = [w \in Workers |-> PlainRequest[2]]
  /\ settings = [w \in Workers |-> DefaultSettings]
  /\ history_context = [w \in Workers |-> <<>>]

\* The steps of run() for a request without attachments.
RunPlain(w) ==
  \/ Start(w)
  \/ AcquireLock(w)
  \/ CreateClient(w)
  \/ NextFile(w)
  \/ AddPrompt(w)
  \/ GenerateContent(w)
  \/ EmitResponse(w)
  \/ HandleException(w)
  \/ Release(w)

\* No count of grants, refills and releases is kept.
InitLock ==
  /\ InitPlain
  /\ ledger = NoLedger

NextLock ==
  \/ \E w \in Workers : RunPlain(w)
  \/ \E w \in Workers : Wait(w)
  \/ RefillToken
  \/ Tick
  \/ \E w \in Workers : WorkerEnters(w)
  \/ TimerEnters

\* The workers run side by side on the shared bucket, and a thread may be
\* preempted between taking the lock and running the block it guards.
SpecLock == InitLock /\ [][NextLock]_vars

\* A later send builds a new worker in the place of one that has finished: the
\* new GeminiWorker has taken no token, emitted nothing and released nothing.
Rebuild(w) ==
  /\ pc[w] = "done"
  /\ pc' = [pc EXCEPT ![w] = "idle"]
  /\ prompt' = [prompt EXCEPT ![w] = PlainRequest[1]]
  /\ file_paths' = [file_paths EXCEPT ![w] = PlainRequest[2]]
  /\ settings' = [settings EXCEPT ![w] = DefaultSettings]
  /\ waited' = [waited EXCEPT ![w] = 0]
  /\ acquired' = [acquired EXCEPT ![w] = FALSE]
  /\ exc' = [exc EXCEPT ![w] = NoExc]
  /\ emitted' = [emitted EXCEPT ![w] = <<>>]
  /\ released' = [released EXCEPT ![w] = 0]
  /\ calls' = [calls EXCEPT ![w] = {}]
  /\ phase' = [phase EXCEPT ![w] = "idle"]
  /\ UNCHANGED <<tokens, timerLeft, idx, current_parts, response>>
  /\ UNCHANGED <<historyVars, uiVars, limiterVars, bucketVars, sessionVars>>

NextNoRefill ==
  \/ \E w \in Workers : RunPlain(w)
  \/ \E w \in Workers : Wait(w)
  \/ \E w \in Workers : Rebuild(w)
  \/ Tick

\* Workers are built, run and finish one after another and side by side, and
\* no refill Timer fires: a token comes back to the bucket by release only.
SpecNoRefill == InitLock /\ [][NextNoRefill]_vars

\* The requests sent from the sessions: a prompt alone, or a text file alone.
SessionRequests == {PlainRequest, <<"", <<"b.txt">>>>}

\* The interactive thread handles a signal of a worker.
OnResponse(w) ==
  \/ OnResponseSuccess(w)
  \/ OnResponseError(w)

\* What the user does with the sessions.
Sessions ==
  \/ CreateNewSession
  \/ \E s \in SessionIds : LoadSession(s)
  \/ \E s \in SessionIds : DeleteSession(s)
  \/ \E s \in SessionIds : RenameSession(s)

NextSession ==
  \/ SendBegin
  \/ \E w \in Workers, r \in SessionRequests : SendFinish(w, r)
  \/ \E w \in Workers : RunPlain(w)
  \/ \E w \in Workers : AcquireCheck(w)
  \/ \E w \in Workers : OnResponse(w)
  \/ Sessions

\* The window is up: the user sends requests, opens, creates and deletes
\* sessions while the workers run, and the interactive thread handles the
\* signals of the workers, all within one tick.
SpecSession == InitSession /\ [][NextSession]_vars

\* The files the user attaches.
SessionFiles == {"b.txt"}

NextAttach ==
  \/ SendBegin
  \/ \E path \in SessionFiles : AttachFiles(path)
  \/ \E w \in Workers, r \in SessionRequests : SendFinish(w, r)
  \/ \E w \in Workers : RunPlain(w)
  \/ \E w \in Workers : AcquireCheck(w)
  \/ \E w \in Workers : OnResponse(w)
  \/ CreateNewSession

\* The window is up: the user attaches files, sends requests and starts new
\* sessions while the workers run, and the interactive thread handles the
\* signals of the workers, all within one tick.
SpecAttach == InitSession /\ [][NextAttach]_vars

(* ------------------------------- claims -------------------------------- *)

NetworkCalls == {"upload", "get", "generate"}

Emitted(w) == pc[w] \in {"finally", "done"}

\* C1: a worker whose acquire returned True has called release exactly once
\* when it is done, whichever way run() ended, and not before.
C1_AcquirerReleasesOnce ==
  \A w \in Workers :
    acquired[w] => released[w] = (IF pc[w] = "done" THEN 1 ELSE 0)

C1_Witness ==
  \E w \in Workers :
    /\ pc[w] = "done" /\ acquired[w] /\ released[w] = 1
    /\ emitted[w] = <<"InvalidRequest">>

\* C2 (as claimed): a worker whose acquire returned False never calls release.
C2_TimedOutWorkerSkipsRelease ==
  \A w \in Workers : (pc[w] = "done" /\ ~acquired[w]) => released[w] = 0

\* C3: a worker whose acquire returned False emits exactly one failure, of kind
\* RateLimited, and never uses the client: no upload, no status poll, no
\* generation call.
C3_TimeoutEmitsRateLimitedOnly ==
  \A w \in Workers :
    ~acquired[w] =>
      /\ calls[w] = {}
      /\ emitted[w] = (IF Emitted(w) THEN <<"RateLimited">> ELSE <<>>)

C3_Witness ==
  \E w \in Workers :
    /\ pc[w] = "done" /\ ~acquired[w]
    /\ emitted[w] = <<"RateLimited">> /\ calls[w] = {}

\* C4: in every reachable state 0 <= tokens <= capacity.
C4_TokensWithinCapacity == tokens \in 0..max_requests

\* The cap has acted: a worker that holds no token has released into a bucket
\* that another worker had filled again.
C4_Witness ==
  \E w, v \in Workers :
    /\ pc[w] = "done" /\ acquired[w]
    /\ pc[v] = "done" /\ ~acquired[v] /\ released[v] = 1
    /\ tokens = max_requests

\* C5: a worker that acquired a token and failed while building (nothing to
\* send, or an exception before the generation call) has released once, and
\* the bucket holds what it held before the acquire: it was full, no other
\* thread has touched it, and it is full again.
C5_BuildFailureRestoresBucket ==
  \A w \in Workers :
    /\ (acquired[w] /\ pc[w] # "done") => tokens = max_requests - 1
    /\ (acquired[w] /\ pc[w] = "done" /\ "generate" \notin calls[w]) =>
         (released[w] = 1 /\ tokens = max_requests)

C5_Witness ==
  \E w \in Workers :
    /\ pc[w] = "done" /\ acquired[w] /\ emitted[w] = <<"InvalidRequest">>
    /\ released[w] = 1 /\ tokens = max_requests

\* C6 (as claimed): every started worker eventually is done and has released,
\* whatever the remote side answers.
C6_EveryWorkerFinishes ==
  \A w \in Workers : (pc[w] # "idle") ~> (pc[w] = "done" /\ released[w] = 1)

\* C7: a worker emits nothing before the end of its run and exactly one
\* outcome at it (one success or one failure, never both), and a finished
\* worker does nothing more.
C7_ExactlyOneOutcome ==
  /\ [](\A w \in Workers : Len(emitted[w]) = (IF Emitted(w) THEN 1 ELSE 0))
  /\ [][\A w \in Workers :
          pc[w] = "done" => (pc'[w] = "done" /\ emitted'[w] = emitted[w])]_vars

C7_Witness ==
  \E w \in Workers : pc[w] = "done" /\ emitted[w] = <<"Success">>

StrictRank(ph) ==
  CASE ph = "idle" -> 0
    [] ph = "acquire" -> 1
    [] ph = "build" -> 2
    [] ph = "upload" -> 3
    [] ph = "call" -> 4
    [] ph = "emit" -> 5
    [] ph = "release" -> 6

InterleavedRank(ph) ==
  CASE ph = "idle" -> 0
    [] ph = "acquire" -> 1
    [] ph \in {"build", "upload"} -> 2
    [] ph = "call" -> 3
    [] ph = "emit" -> 4
    [] ph = "release" -> 5

C9_EmptyRequestBeforeNetwork ==
  \A w \in Workers :
    emitted[w] = <<"InvalidRequest">> => calls[w] \cap NetworkCalls = {}

\* C10: with an empty prompt and no attachment the build ends in
\* InvalidRequest and the generation call is never made; with an empty prompt
\* and one attachment that gave a part the build succeeds and the new user turn
\* has exactly that one part.
C10_EmptyPromptBuild ==
  /\ [](\A w \in Workers :
          (pc[w] \notin {"idle", "done"} /\ prompt[w] = "") =>
            /\ file_paths[w] = <<>> =>
                 ("generate" \notin calls[w] /\ pc[w] \notin {"call", "respond"})
            /\ (Len(file_paths[w]) = 1 /\ pc[w] = "call") =>
                 current_parts[w] \in
                   {<<<<kind, file_paths[w][1]>>>> : kind \in {"text", "uri"}})
  /\ [][\A w \in Workers :
          (pc[w] = "prompt" /\ pc'[w] # "prompt" /\ prompt[w] = "") =>
            IF current_parts[w] = <<>>
              THEN pc'[w] = "finally" /\ emitted'[w] = <<"InvalidRequest">>
              ELSE /\ pc'[w] = "call" /\ emitted'[w] = <<>>
                   /\ current_parts'[w] = current_parts[w]]_vars

C10_Witness ==
  \E w \in Workers :
    /\ pc[w] = "call" /\ prompt[w] = "" /\ Len(file_paths[w]) = 1
    /\ Len(current_parts[w]) = 1

(* ----------------------- claims about the limiter ---------------------- *)

\* The acquires that returned True less than one period ago.
InWindow(ages) == SelectSeq(ages, LAMBDA a : a < period)

\* C11 (as claimed): in any window of one period at most max_requests
\* acquires return True.
C11_RateEnforced == Len(InWindow(recent)) <= max_requests

\* The step in which the acquire of thread c returns.
AcquireReturns(c) == call_pc[c] # "idle" /\ call_pc'[c] = "idle"

\* C12: a look of acquire at a bucket with a token takes exactly one token and
\* returns True at once, whatever blocking and timeout are; a non-blocking
\* acquire that finds the bucket empty returns False, never sleeps and leaves
\* the tokens alone.
C12_AcquireImmediate ==
  /\ [](\A c \in Callers : ~call_args[c][1] => ~slept[c])
  /\ [][\A c \in Callers :
          /\ (call_pc[c] = "lock" /\ call_pc'[c] # "lock" /\ tokens > 0) =>
               /\ tokens' = tokens - 1
               /\ AcquireReturns(c) /\ result'[c] = "True"
          /\ (call_pc[c] = "lock" /\ call_pc'[c] # "lock" /\ tokens = 0) =>
               (call_pc'[c] = "check" /\ tokens' = tokens)
          /\ (call_pc[c] = "check" /\ call_pc'[c] # "check"
                /\ ~call_args[c][1]) =>
               /\ AcquireReturns(c) /\ result'[c] = "False"
               /\ tokens' = tokens]_vars

\* One thread got the only token at its first look; the other, not blocking
\* and with timeout 0, has found the bucket empty.
C12_Witness ==
  \E c, d \in Callers :
    /\ result[c] = "True" /\ tokens = 0
    /\ call_pc[d] = "check" /\ call_args[d] = <<FALSE, <<0>>>> /\ ~slept[d]

\* C13: a blocking acquire goes on polling while its looks find the bucket
\* empty, returns True at the first look that finds a token, and returns
\* False only when it has a timeout and at least that much time has passed
\* since the call started; returning False it leaves the tokens alone.
C13_BlockingAcquire ==
  [][\A c \in Callers :
       call_args[c][1] =>
         /\ (call_pc[c] = "lock" /\ call_pc'[c] # "lock") =>
              IF tokens > 0
                THEN AcquireReturns(c) /\ result'[c] = "True"
                ELSE call_pc'[c] = "check" /\ tokens' = tokens
         /\ (call_pc[c] = "check" /\ call_pc'[c] # "check") =>
              IF call_args[c][2] # <<>> /\ call_waited[c] >= call_args[c][2][1]
                THEN AcquireReturns(c) /\ result'[c] = "False"
                     /\ tokens' = tokens
                ELSE call_pc'[c] = "lock" /\ slept'[c]
         /\ (AcquireReturns(c) /\ result'[c] = "False") =>
              /\ call_args[c][2] # <<>>
              /\ call_waited[c] >= call_args[c][2][1]
              /\ tokens' = tokens]_vars

\* A blocking acquire with the longest timeout has polled, slept, and waited
\* its timeout out at an empty bucket.
C13_Witness ==
  \E c \in Callers :
    /\ call_pc[c] = "check" /\ call_args[c] = <<TRUE, <<WorkerTimeout>>>>
    /\ slept[c] /\ call_waited[c] = WorkerTimeout /\ tokens = 0

\* C14: from a full bucket, with nothing given back, after max_requests
\* acquires returned True the bucket is empty, remaining() returns 0 and every
\* acquire that returns (a non-blocking one does, from its first look) returns
\* False.
C14_DrainedBucket ==
  /\ [](Len(recent) = max_requests => tokens = 0)
  /\ [][Len(recent) = max_requests =>
          \A c \in Callers :
            /\ (seen'[c] # seen[c] /\ seen'[c] # <<>>) => seen'[c] = <<0>>
            /\ AcquireReturns(c) => result'[c] = "False"
            /\ (call_pc[c] = "lock" /\ call_pc'[c] # "lock") =>
                 call_pc'[c] = "check"
            /\ (call_pc[c] = "check" /\ call_pc'[c] # "check"
                  /\ ~call_args[c][1]) => AcquireReturns(c)]_vars

C14_Witness ==
  \E c, d \in Callers :
    /\ Len(recent) = max_requests /\ tokens = 0
    /\ seen[c] = <<0>> /\ result[d] = "False"

\* C15: release adds exactly one token below capacity and changes nothing on
\* a full bucket, so the tokens never pass the capacity.
C15_ReleaseClamped ==
  /\ [](tokens <= max_requests)
  /\ [][\A c \in Callers :
          (result[c] # "None" /\ result'[c] = "None") =>
            tokens' = (IF tokens < max_requests THEN tokens + 1 ELSE tokens)]_vars
  /\ [][(call_pc' = call_pc /\ timerLeft' = timerLeft /\ tokens' # tokens) =>
          (tokens < max_requests /\ tokens' = tokens + 1)]_vars

\* A release on a bucket that was full: no acquire returned True lately, and
\* remaining() returns the capacity.
C15_Witness ==
  \E c, d \in Callers :
    /\ result[c] = "None" /\ recent = <<>> /\ tokens = max_requests
    /\ seen[d] = <<max_requests>>

\* The step in which the refill Timer fires.
Firing == timerLeft = 0 /\ timerLeft' = refill_interval

C17_NoPacedCallBlocks ==
  \A c \in Callers : call_pc[c] # "check" /\ result[c] # "False"

\* C18 (as claimed): no operation of the limiter ends in an error.
C18_LimiterNeverRaises == built[1] # "ZeroDivisionError"

(* ------------------- claims about the interactive thread --------------- *)

\* A worker that is Throttled, Uploading or Calling.
InFlight(w) ==
  pc[w] \in {"acq_lock", "acq_check", "upload", "poll", "poll_get", "call"}

C20_SettingsSnapshot ==
  /\ [][\A w \in Workers :
          (settings[w] # NoSettings /\ pc'[w] # "done") =>
            settings'[w] = settings[w]]_vars
  /\ [][\A w \in Workers :
          (Unbuilt(w) /\ ~Unbuilt(w)') =>
            settings'[w] \in {config_at_entry, config}]_vars

(* --------------------- claims about the worker's outcome --------------- *)

\* C22: when the generation call has returned, the worker emits Success if
\* the response text is not empty and SafetyBlocked if it is empty, and it
\* emits neither of the two in any other case.
C22_SuccessIffText ==
  /\ [](\A w \in Workers :
          pc[w] = "finally" =>
            /\ emitted[w] = <<"Success">> <=> response[w] \notin {"none", ""}
            /\ emitted[w] = <<"SafetyBlocked">> <=> response[w] = "")
  /\ [][\A w \in Workers :
          (pc[w] = "respond" /\ pc'[w] # "respond") =>
            emitted'[w] = (IF response[w] # "" THEN <<"Success">>
                           ELSE <<"SafetyBlocked">>)]_vars

\* The call has returned an empty text and the worker has emitted its outcome.
C22_Witness ==
  \E w \in Workers :
    /\ pc[w] = "finally" /\ response[w] = ""
    /\ emitted[w] = <<"SafetyBlocked">>

\* The kind the claim gives an exception: the rate signal is named first.
kind_of(signal) ==
  CASE "rate" \in signal -> "RateLimited"
    [] "rate" \notin signal /\ "auth" \in signal -> "AuthError"
    [] OTHER -> "Unknown"

\* C23: an exception that escapes the build or the call ends the worker with
\* exactly one failure, of the kind its signal gives (RateLimited for the rate
\* signal, else AuthError for the auth signal, else Unknown), and no response
\* outcome; an exception of an upload does not escape.
C23_ExceptionClassified ==
  /\ [](\A w \in Workers :
          /\ pc[w] = "except" => (exc[w] # NoExc /\ emitted[w] = <<>>)
          /\ pc[w] # "except" => exc[w] = NoExc)
  /\ [][\A w \in Workers :
          /\ (pc[w] = "except" /\ pc'[w] # "except") =>
               /\ emitted'[w] = <<kind_of(exc[w][2])>>
               /\ pc'[w] = "finally"
          /\ (pc[w] \in {"upload", "poll_get"} /\ pc'[w] # pc[w]) =>
               (pc'[w] \in {"files", "poll"} /\ emitted'[w] = <<>>)
          /\ (pc[w] # "except" /\ pc'[w] = "except") =>
               pc[w] \in {"client", "call"}]_vars

\* An exception of the generation call, made after an upload, has ended the
\* worker with a failure of kind RateLimited.
C23_Witness ==
  \E w \in Workers :
    /\ pc[w] = "done" /\ emitted[w] = <<"RateLimited">>
    /\ "generate" \in calls[w] /\ "upload" \in calls[w]

(* ------------------- claims about the attachment loop ------------------ *)

\* The step in which the worker drops the attachment it is at: the loop index
\* moves on and no part was added.
Drops(w) ==
  /\ pc[w] \in {"files", "upload", "poll_get"}
  /\ idx'[w] = idx[w] + 1
  /\ current_parts'[w] = current_parts[w]

\* The attachment loop of the worker is over and has dropped an attachment.
HasDropped(w) ==
  pc[w] = "prompt" /\ Len(current_parts[w]) < Len(file_paths[w])

\* C24 (as claimed): a worker that has dropped an attachment goes on to the
\* generation call and emits no failure on the way.
C24_DroppedNeverFails ==
  [][\A w \in Workers :
       (HasDropped(w) /\ pc'[w] # "prompt") =>
         (pc'[w] = "call" /\ emitted'[w] = <<>>)]_vars

\* C24 (amended): dropping an attachment (missing, unreadable, failed upload,
\* FAILED status) emits nothing, raises nothing and leaves the worker in the
\* attachment loop; after the loop the worker goes on to the generation call
\* with the remaining parts plus the prompt text when there is any part or
\* prompt, and ends in InvalidRequest when there is none.
C24_DroppedAbsorbed ==
  /\ [][\A w \in Workers :
          Drops(w) =>
            /\ pc'[w] = "files" /\ emitted'[w] = <<>> /\ exc'[w] = NoExc]_vars
  /\ [][\A w \in Workers :
          (HasDropped(w) /\ pc'[w] # "prompt") =>
            IF current_parts[w] # <<>> \/ prompt[w] # ""
              THEN /\ pc'[w] = "call" /\ emitted'[w] = <<>>
                   /\ current_parts'[w] =
                        current_parts[w] \o prompt_parts(prompt[w])
              ELSE /\ pc'[w] = "finally"
                   /\ emitted'[w] = <<"InvalidRequest">>]_vars

\* Of two attachments one was uploaded and then dropped and one gave a part;
\* the worker is at the generation call with that part and the prompt.
C24_Witness ==
  \E w \in Workers :
    /\ pc[w] = "call" /\ prompt[w] # "" /\ Len(file_paths[w]) = 2
    /\ Len(current_parts[w]) = 2 /\ "upload" \in calls[w]
    /\ current_parts[w][1][1] = "text"

\* The paths of the model that name binary media: an image, an audio file, a
\* PDF.
BinaryMedia == {"a.png", "c.mp3", "d.pdf"}

\* The part the claim gives a processed attachment: a remote reference for
\* binary media, inline text for any other file.
expected_part(path) ==
  IF path \in BinaryMedia THEN <<"uri", path>> ELSE <<"text", path>>

\* s can be had from t by leaving elements out.
RECURSIVE IsSubSeq(_, _)
IsSubSeq(s, t) ==
  IF s = <<>> THEN TRUE
  ELSE IF t = <<>> THEN FALSE
  ELSE IF Head(s) = Head(t) THEN IsSubSeq(Tail(s), Tail(t))
  ELSE IsSubSeq(s, Tail(t))

\* The expected parts of the first n paths of the worker.
expected_parts(w, n) == [i \in 1..n |-> expected_part(file_paths[w][i])]

\* C25: during the attachment loop the parts are parts of the paths gone
\* through, in the order of the file list, a remote reference for binary media
\* and inline text for any other file; each processed attachment adds exactly
\* its part at the end and a dropped one adds none; the prompt text is added
\* last, when it is not empty, so at the generation call the length is the
\* number of processed attachments plus one for a non-empty prompt.
C25_PartsInOrder ==
  /\ [](\A w \in Workers :
          /\ pc[w] \in {"files", "upload", "poll", "poll_get", "prompt"} =>
               IsSubSeq(current_parts[w], expected_parts(w, idx[w] - 1))
          /\ pc[w] = "call" =>
               LET n == Len(current_parts[w]) - Len(prompt_parts(prompt[w]))
               IN  /\ n >= 0
                   /\ IsSubSeq(SubSeq(current_parts[w], 1, n),
                               expected_parts(w, Len(file_paths[w])))
                   /\ prompt[w] # "" => current_parts[w][n + 1] = "prompt")
  /\ [][\A w \in Workers :
          /\ (pc[w] \in {"files", "upload", "poll_get"}
                /\ current_parts'[w] # current_parts[w]) =>
               /\ current_parts'[w] =
                    Append(current_parts[w],
                           expected_part(file_paths[w][idx[w]]))
               /\ idx'[w] = idx[w] + 1
          /\ (pc[w] = "prompt" /\ pc'[w] = "call") =>
               current_parts'[w] =
                 current_parts[w]
                   \o (IF prompt[w] # "" THEN <<"prompt">> ELSE <<>>)
          /\ (pc[w] \in {"poll", "call"}) =>
               (current_parts'[w] = current_parts[w] \/ pc'[w] # pc[w])]_vars

\* An image and a text file were both processed and the prompt is not empty:
\* the turn has the reference, the inline text and the prompt, in this order.
C25_Witness ==
  \E w \in Workers :
    /\ pc[w] = "call" /\ file_paths[w] = <<"a.png", "b.txt">>
    /\ prompt[w] # "" /\ Len(current_parts[w]) = 3
    /\ current_parts[w][1] = <<"uri", "a.png">>
    /\ current_parts[w][2] = <<"text", "b.txt">>
    /\ current_parts[w][3] = "prompt"

(* -------------------- claims about the request contents ---------------- *)

\* C26: the contents handed to the generation call are one entry per turn of
\* the history the worker was given, in the same order, each with the role
\* and the text of its turn as its only part, followed by exactly one entry:
\* the new user turn with the parts built; until that turn is added the
\* contents are the mapped history alone.
C26_HistoryThenNewTurn ==
  \A w \in Workers :
    LET h == history_context[w]
        g == gemini_contents[w]
    IN  /\ pc[w] \in {"files", "upload", "poll", "poll_get", "prompt", "call"} =>
             /\ Len(g) = Len(h) + (IF pc[w] = "call" THEN 1 ELSE 0)
             /\ \A i \in 1..Len(h) :
                  /\ g[i].role = h[i].role
                  /\ g[i].parts = <<<<"text", h[i].text>>>>
        /\ pc[w] = "call" =>
             /\ g[Len(g)].role = "user"
             /\ g[Len(g)].parts = current_parts[w]
             /\ current_parts[w] # <<>>

\* A history with two user turns in a row and a model turn was mapped, and the
\* new user turn follows it.
C26_Witness ==
  \E w \in Workers :
    /\ pc[w] = "call" /\ Len(history_context[w]) = 3
    /\ Len(gemini_contents[w]) = 4
    /\ gemini_contents[w][2] = [role |-> "user", parts |-> <<<<"text", "a">>>>]
    /\ gemini_contents[w][3] = [role |-> "model", parts |-> <<<<"text", "b">>>>]
    /\ gemini_contents[w][4].role = "user"

\* The with-block the holder of the lock is in can be run to its end at once.
HolderMayLeave ==
  \/ lock = <<TimerThread>> /\ ENABLED RefillToken
  \/ \E w \in Workers :
       lock = <<ThreadOf(w)>> /\ ENABLED (AcquireLock(w) \/ Release(w))

\* C28: the lock of the bucket has at most one holder, and the holder is a
\* thread inside a with-block of the limiter that it can leave at once: a
\* worker at the look of acquire or at release (never one that sleeps between
\* two looks, talks to the server, or is anywhere else in run()), or the Timer
\* thread after its Timer has expired. So a worker that waits for a token
\* never holds the lock a release or a refill needs.
C28_LockHeldBriefly ==
  /\ Len(lock) <= 1
  /\ \A w \in Workers : lock = <<ThreadOf(w)>> => AtWith(w)
  /\ lock = <<TimerThread>> => timerLeft = 0
  /\ lock # NoHolder => HolderMayLeave

\* A worker is inside the with-block of release while another worker waits
\* between two looks of its acquire.
C28_Witness ==
  \E w, v \in Workers :
    /\ pc[w] = "acq_check"
    /\ pc[v] = "finally"
    /\ lock = <<ThreadOf(v)>>

\* C29: the acquires that returned True are at most the tokens the limiter
\* started with plus the refill firings plus the release calls so far. While
\* nothing was given back, every acquire that returned True took one of the
\* initial tokens, and an acquire returned False only after all of them were
\* taken: of k calls contending for t tokens, min(k, t) return True.
C29_NoTokenTwice ==
  /\ ledger[1] <= max_requests + ledger[2] + ledger[3]
  /\ (ledger[2] = 0 /\ ledger[3] = 0) =>
       /\ ledger[1] = max_requests - tokens
       /\ \A c \in Callers : result[c] = "False" => ledger[1] = max_requests

\* Two threads contended for the tokens of the full bucket with nothing given
\* back: one acquire returned True for each token and another returned False.
C29_Witness ==
  /\ ledger = <<max_requests, 0, 0>>
  /\ \E c \in Callers : result[c] = "False"
  /\ \E c \in Callers : result[c] = "True"

\* The workers between an acquire that returned True and their release.
Holders == {w \in Workers : acquired[w] /\ released[w] = 0}

\* C30: while no refill Timer fires, the workers that hold a token (their
\* acquire returned True and they have not released yet) are never more than
\* the capacity of the bucket.
C30_HoldersWithinCapacity == Cardinality(Holders) <= max_requests

(* ---------------------- claims about the sessions ---------------------- *)

\* The step builds a worker: it is the part of send_message that follows
\* processEvents.
SendStep == \E w \in Workers : Unbuilt(w) /\ ~Unbuilt(w)'

\* The step handles a signal of the worker.
HandledStep(w) == handled'[w] = handled[w] + 1

\* The step appends one turn of the role to the history of the session s and
\* changes no turn that was there, in s or in any other session.
AppendedTo(s, role) ==
  /\ s \in DOMAIN data
  /\ DOMAIN data' = DOMAIN data
  /\ Len(data'[s]) = Len(data[s]) + 1
  /\ SubSeq(data'[s], 1, Len(data[s])) = data[s]
  /\ data'[s][Len(data'[s])].role = role
  /\ \A t \in DOMAIN data \ {s} : data'[t] = data[t]

AfterCall == {"respond", "except", "finally", "done"}

\* C21: nothing is retried. A worker that has made its generation call is
\* past it for good, and a worker that has emitted an outcome only goes on to
\* its release and ends: it acquires nothing more. Handling an outcome changes
\* no worker and builds none; a worker is built only inside send_message.
C21_NoAutomaticRetry ==
  /\ [](\A w \in Workers :
          /\ "generate" \in calls[w] => pc[w] \in AfterCall
          /\ emitted[w] # <<>> => pc[w] \in {"finally", "done"})
  /\ [][\A w \in Workers :
          /\ emitted[w] # <<>> =>
               /\ acquired'[w] = acquired[w]
               /\ calls'[w] = calls[w]
               /\ emitted'[w] = emitted[w]
          /\ HandledStep(w) => unsessioned' = unsessioned
          /\ (Unbuilt(w) /\ ~Unbuilt(w)') => ui = "sending"]_vars

\* A failure of a worker that made its generation call was handled, and the
\* worker has ended with that one call and that one outcome.
C21_Witness ==
  \E w \in Workers :
    /\ handled[w] = 1
    /\ emitted[w] \in {<<"RateLimited">>, <<"Unknown">>}
    /\ "generate" \in calls[w]
    /\ pc[w] = "done"

(* --------------------- claims about waiting acquirers ------------------ *)

\* The thread is inside a blocking acquire with no timeout.
Waiter(c) == call_pc[c] # "idle" /\ call_args[c] = <<TRUE, <<>>>>

\* The acquire of the thread has returned True.
Granted(c) == call_pc[c] = "idle" /\ result[c] = "True"

\* C31 (as claimed): with the refill Timer running and every thread, the Timer
\* and the clock going on, every blocking acquire with no timeout returns True
\* in the end, whatever the other threads do.
C31_NoWaiterStarves ==
  \A c \in Callers : Waiter(c) ~> Granted(c)

\* C31 (amended): under the same fairness, while a thread is inside a blocking
\* acquire with no timeout some acquire returns True in the end, and the
\* thread's own acquire returns True in the end when the other threads are
\* outside acquire from some moment on.
C31_WaiterServedWhenAlone ==
  /\ (\E c \in Callers : Waiter(c)) ~> (\E c \in Callers : Granted(c))
  /\ \A c \in Callers :
       <>[](\A d \in Callers \ {c} : call_pc[d] = "idle")
         => (Waiter(c) ~> Granted(c))

\* A thread inside a blocking acquire with no timeout has slept and found the
\* bucket empty again, after the other thread's acquire returned True.
C31_Witness ==
  \E c, d \in Callers :
    /\ Waiter(c) /\ call_pc[c] = "check" /\ slept[c]
    /\ tokens = 0
    /\ Granted(d)

\* The step is one of a thread that calls the limiter.
CallerStep ==
  \E c \in Callers :
    \/ call_pc'[c] # call_pc[c]
    \/ result'[c] # result[c]
    \/ seen'[c] # seen[c]

\* C37: there is always one refill Timer, pending or due. Each firing starts
\* the next Timer with the full interval and changes the tokens by one below
\* capacity and not at all at capacity; no call of acquire, release or
\* remaining touches the Timer; and with the Timer's thread and the clock
\* going on the firings never end.
C37_OneRefillTimer ==
  /\ [](timerLeft \in 0..refill_interval)
  /\ [][/\ timerLeft' # timerLeft =>
             \/ Firing /\ tokens' - tokens = (IF tokens < max_requests THEN 1 ELSE 0)
             \/ timerLeft' = timerLeft - 1 /\ tokens' = tokens
        /\ CallerStep => timerLeft' = timerLeft]_vars
  /\ []<><<Firing>>_vars

\* A Timer was started by a firing that came while a thread was waiting inside
\* acquire: the thread has waited for a tick and the Timer has its full
\* interval to go.
C37_Witness ==
  \E c \in Callers :
    /\ call_pc[c] # "idle" /\ call_waited[c] >= 1
    /\ timerLeft = refill_interval


\* C36: whatever the user does with the sessions and whichever signals are
\* handled, the current session id names a session of self.data, and so does
\* every item of the sidebar that the user can click.
C36_CurrentSessionPresent ==
  /\ current_session_id \in DOMAIN data
  /\ chat_list \subseteq DOMAIN data

\* A response was handled after the session that sent its request was deleted.
C36_Witness ==
  \E w \in Workers :
    /\ handled[w] = 1
    /\ sent[w].session \in SessionIds \ DOMAIN data
    /\ DOMAIN stored # DOMAIN data

\* C32: a handled success appends its model turn to the history of the
\* session that was current when the request was sent, whatever the user has
\* done with the sessions since.
C32_AnsweredWhereAsked ==
  [][\A w \in Workers :
       (HandledStep(w) /\ Pending(w) = "Success") =>
         AppendedTo(sent[w].session, "model")]_vars

\* The turns are user, model, user, model, ... and the last one, if any, is a
\* model turn.
Alternates(h) ==
  /\ Len(h) % 2 = 0
  /\ \A i \in 1..Len(h) : h[i].role = (IF i % 2 = 1 THEN "user" ELSE "model")

\* C33: the prior history a worker was given alternates user and model turns
\* and is empty or ends with a model turn.
C33_ContextAlternates == \A w \in Workers : Alternates(history_context[w])

\* The attached files without those the worker was sent.
not_sent_with(w) ==
  LET kept(path) == \A i \in 1..Len(sent[w].files) : sent[w].files[i] # path
  IN  SelectSeq(attached_files, kept)

\* C34: handling a failure leaves the attached files as they are, and
\* handling a success removes the files that were sent with its request and
\* no other: what the user attached while the request was in flight stays.
C34_OnlySentFilesRemoved ==
  [][\A w \in Workers :
       HandledStep(w) =>
         attached_files' = (IF Pending(w) = "Success"
                              THEN not_sent_with(w)
                              ELSE attached_files)]_vars

\* The step builds the worker w.
Builds(w) == Unbuilt(w) /\ ~Unbuilt(w)'

\* C35: a send appends the user turn of its prompt to the history of the
\* current session and hands the worker the history as it was before that
\* turn; no later step changes what the worker was handed while it runs,
\* whatever is appended to the session; and the request built from it has one
\* entry more than the history handed over, the new user turn, whose last
\* part, and no other, is the prompt.
C35_PromptOnceInRequest ==
  /\ [][\A w \in Workers :
          /\ Builds(w) =>
               /\ history_context'[w] = data[current_session_id]
               /\ data'[current_session_id] =
                    Append(history_context'[w],
                           Turn("user", user_text(prompt'[w])))
          /\ (~Builds(w) /\ pc'[w] # "done") =>
               history_context'[w] = history_context[w]]_vars
  /\ [](\A w \in Workers :
          (pc[w] = "call" /\ prompt[w] # "") =>
            LET g == gemini_contents[w]
                parts == g[Len(g)].parts
            IN  /\ Len(g) = Len(history_context[w]) + 1
                /\ parts[Len(parts)] = "prompt"
                /\ \A i \in 1..(Len(parts) - 1) : parts[i] # "prompt")

\* A request is about to be made from a history of two turns and the prompt,
\* while the session it was sent from has had a later turn appended.
C35_Witness ==
  \E w \in Workers :
    /\ pc[w] = "call" /\ prompt[w] # ""
    /\ Len(history_context[w]) = 2
    /\ sent[w].session \in DOMAIN data
    /\ Len(data[sent[w].session]) > Len(history_context[w]) + 1
    /\ but_last(but_last(data[sent[w].session])) = history_context[w]

====
